---- MODULE Spec2Model ----
(***************************************************************************)
(* hapi-rbac: the policy evaluation engine (targets, rules, combining      *)
(* algorithms, policies and policy sets), the data retrieval router and    *)
(* the onPostAuth handler that maps the engine's decision to a response.   *)
(*                                                                         *)
(* JavaScript values are modelled as records:                              *)
(*   a scalar        [s |-> c]      c is the literal's text: "'permit'",   *)
(*                                  "1", "true", "null", "undefined", ...  *)
(*   an array        [arr |-> <<v1, ..., vn>>]                             *)
(*   an object       a record holding the properties the object has; a     *)
(*                   property the object lacks is a field the record lacks *)
(* A string that the router parses (an attribute reference) is modelled by *)
(* the list of its ':'-separated segments: 'a:b' is <<"a", "b">>, 'k' is   *)
(* <<"k">> and the empty string is <<"">>.                                 *)
(***************************************************************************)
EXTENDS Integers, Sequences, FiniteSets, TLC

VARIABLES
    pc,            \* position of the call or of the request handler
    routers,       \* the DataRetrievalRouter objects, by reference (1 = root)
    dataRetriever, \* reference of the router handed to the engine
    target,        \* evaluateTarget's argument
    rule,          \* evaluateRule's argument
    items,         \* a combining algorithm's argument: the children
    apply,         \* the combining algorithm (items' parent's `apply`) and its `fn`
    item,          \* evaluatePolicy's argument: the policy document
    cb,            \* the arguments the callback was invoked with
    calls,         \* the retriever invocations made so far
    request,       \* the hapi request (route settings and credentials)
    options,       \* the plugin options (policy, responseCode)
    reply,         \* what the onPostAuth handler answered
    call,          \* the last call on a router: its arguments and its outcome
    tasks          \* Async.parallel's tasks: what each called back, Pending until then

vars == <<pc, routers, dataRetriever, target, rule, items, apply, item, cb,
          calls, request, options, reply, call, tasks>>

----------------------------------------------------------------------------
(* Decisions *)

DENY == 0
PERMIT == 1
UNDETERMINED == 3

CONFIG_NONE == "'none'"

----------------------------------------------------------------------------
(* JavaScript values *)

undefined == [s |-> "undefined"]
null == [s |-> "null"]

Str(c) == [s |-> c]

IsScalar(v) == "s" \in DOMAIN v
IsArray(v) == "arr" \in DOMAIN v

\* o.f: undefined when the object has no such property
Prop(o, f) == IF f \in DOMAIN o THEN o[f] ELSE undefined

\* the scalars that JavaScript coerces to false
Falsy == {"undefined", "null", "false", "0", "''"}

\* !v is false
Truthy(v) == ~(IsScalar(v) /\ v.s \in Falsy)

\* a === b: scalars by value; arrays and objects by identity, and no value
\* of a policy document is the same object as a value of a request
StrictEq(a, b) == IsScalar(a) /\ IsScalar(b) /\ a.s = b.s

\* new Boom(message, {statusCode}), and Boom.badImplementation(message)
Boom(message, statusCode) ==
    [isBoom |-> TRUE, message |-> message, output |-> [statusCode |-> statusCode]]

badImplementation(message) == Boom(message, Str("500"))

----------------------------------------------------------------------------
(* Data retrieval router *)

\* defaults.credentialsRetriever
credentialsRetriever(source, key, context) ==
    IF ~Truthy(context) \/ ~Truthy(Prop(context, "auth"))
          \/ ~Truthy(Prop(context.auth, "credentials"))
    THEN null
    ELSE Prop(context.auth.credentials, key)

\* the retrievers of the router's tests: key + '-1' and key + '-2'
retriever1(source, key, context) == Str("'" \o key \o "-1'")

retriever2(source, key, context) == Str("'" \o key \o "-2'")

\* the call this.retrievers[source](source, key, context)
Retrieve(retriever, source, key, context) ==
    CASE retriever = "credentialsRetriever" ->
            credentialsRetriever(source, key, context)
      [] retriever = "retriever1" -> retriever1(source, key, context)
      [] retriever = "retriever2" -> retriever2(source, key, context)

\* new DataRetrievalRouter(options)
DataRetrievalRouter(opts) ==
    [n \in {"options", "retrievers"} \cup (DOMAIN opts \cap {"parent", "context"}) |->
        CASE n = "options" -> opts
          [] n = "retrievers" -> <<>>
          [] OTHER -> opts[n]]

\* createChild handing every child the context of the first child created
createChildFirstContext(rs, self, context) ==
    [options |-> [parent |-> self,
                  context |-> IF Len(rs) > 1 THEN rs[2].context ELSE context],
     retrievers |-> <<>>,
     parent |-> self,
     context |-> IF Len(rs) > 1 THEN rs[2].context ELSE context]

\* router.createChild(context): Hoek.applyToDefaults(this.options, {parent, context})
createChild(rs, self, context) ==
    DataRetrievalRouter(
        [n \in DOMAIN rs[self].options \cup {"parent", "context"} |->
            CASE n = "parent" -> self
              [] n = "context" -> context
              [] OTHER -> rs[self].options[n]])

\* router._register(handles, retriever, options): the router, or "throw"
_register(router, handles, retriever, opts) ==
    IF handles \in DOMAIN router.retrievers /\ ~opts.override
    THEN [threw |-> "There is a data retriever already registered for the source"]
    ELSE [router EXCEPT !.retrievers =
            [h \in DOMAIN router.retrievers \cup {handles} |->
                IF h = handles THEN retriever ELSE router.retrievers[h]]]

\* the forEach of register from handle i on; r is what _register left for
\* handle i - 1: an exception leaves the iteration, and the handles registered
\* before it stay registered
RECURSIVE registerEach(_, _, _, _, _, _)
registerEach(router, handles, i, retriever, opts, r) ==
    IF "threw" \in DOMAIN r
    THEN [router |-> router, threw |-> r.threw]
    ELSE IF i > Len(handles)
         THEN [router |-> r]
         ELSE registerEach(r, handles, i + 1, retriever, opts,
                           _register(r, handles[i], retriever, opts))

\* register with the check of _register and the assignment in the other order
registerAssignFirst(router, handles, retriever, opts) ==
    [router |-> [router EXCEPT !.retrievers =
                    [h \in DOMAIN router.retrievers \cup {handles[n] : n \in 1..Len(handles)} |->
                        IF \E n \in 1..Len(handles) : handles[n] = h
                        THEN retriever
                        ELSE router.retrievers[h]]]]
        @@ (IF (\E n \in 1..Len(handles) : handles[n] \in DOMAIN router.retrievers)
                 /\ ~("override" \in DOMAIN opts /\ opts.override)
            THEN [threw |-> "There is a data retriever already registered for the source"]
            ELSE <<>>)

\* register that never replaces a retriever
registerKeep(router, handles, retriever, opts) ==
    [router |-> [router EXCEPT !.retrievers =
                    [h \in DOMAIN router.retrievers \cup {handles[n] : n \in 1..Len(handles)} |->
                        IF h \in DOMAIN router.retrievers
                        THEN router.retrievers[h]
                        ELSE retriever]]]

\* router.register(handles, retriever, options): handles is the list of the
\* sources named, <<h>> for the string h; [router], the router as the call
\* leaves it, and [threw] when it throws
register(router, handles, retriever, opts) ==
    registerEach(router, handles, 1, retriever,
                 [override |-> "override" \in DOMAIN opts /\ opts.override], router)

\* router.get(key, context): [value, calls], or [threw] when a Joi assertion fails
RECURSIVE get(_, _, _, _)
get(rs, self, key, context) ==
    IF key = <<"">>
    THEN [threw |-> "ValidationError", calls |-> <<>>]
    ELSE LET source == IF Len(key) = 1 THEN "credentials" ELSE key[1]
             k == IF Len(key) = 1 THEN key[1] ELSE key[2]
             ctx == IF Truthy(context) THEN context ELSE Prop(rs[self], "context")
         IN  IF k = "" \/ source = ""
             THEN [threw |-> "ValidationError", calls |-> <<>>]
             ELSE IF source \notin DOMAIN rs[self].retrievers
                  THEN IF "parent" \notin DOMAIN rs[self]
                       THEN [value |-> null, calls |-> <<>>]
                       ELSE get(rs, rs[self].parent, <<k>>, ctx)
                  ELSE [value |-> Retrieve(rs[self].retrievers[source], source, k, ctx),
                        calls |-> <<[router |-> self,
                                     retriever |-> rs[self].retrievers[source],
                                     source |-> source, key |-> k, context |-> ctx]>>]

----------------------------------------------------------------------------
(* Targets *)

\* _targetApplies without the membership test on list attributes
_targetAppliesEqualOnly(t, value) == StrictEq(t, value)

\* internals._targetApplies(target, value)
_targetApplies(t, value) ==
    IF StrictEq(t, value)
    THEN TRUE
    ELSE IF IsArray(value)
         THEN \E j \in 1..Len(value.arr) : StrictEq(value.arr[j], t)
         ELSE FALSE

\* the for loop of evaluateTarget from index i on (target[i] is t.arr[i + 1]),
\* after the retriever invocations cs
RECURSIVE evaluateTargetLoop(_, _, _, _, _)
evaluateTargetLoop(t, rs, dr, i, cs) ==
    IF ~(i < Len(t.arr))
    THEN [cb |-> [err |-> null, applies |-> StrictEq(t.arr[1], Str("'all-of'"))],
          calls |-> cs]
    ELSE LET value == get(rs, dr, t.arr[i + 1].type, undefined)
             result == _targetApplies(Prop(t.arr[i + 1], "value"), value.value)
         IN  IF "threw" \in DOMAIN value
             THEN [threw |-> value.threw, calls |-> cs]
             ELSE IF result /\ StrictEq(t.arr[1], Str("'any-of'"))
                  THEN [cb |-> [err |-> null, applies |-> TRUE],
                        calls |-> cs \o value.calls]
                  ELSE IF ~result /\ StrictEq(t.arr[1], Str("'all-of'"))
                       THEN [cb |-> [err |-> null, applies |-> FALSE],
                             calls |-> cs \o value.calls]
                       ELSE evaluateTargetLoop(t, rs, dr, i + 1, cs \o value.calls)

\* evaluateTarget without the default for a missing target
evaluateTargetNoDefault(t, rs, dr) ==
    IF ~IsArray(t) \/ Len(t.arr) < 2
    THEN [cb |-> [err |-> badImplementation("'RBAC target error: invalid format'")],
          calls |-> <<>>]
    ELSE evaluateTargetLoop(t, rs, dr, 1, <<>>)

\* internals.evaluateTarget(target, dataRetriever, callback): the callback's
\* arguments and the retriever invocations made, or [threw]
evaluateTarget(t, rs, dr) ==
    IF ~Truthy(t)
    THEN [cb |-> [err |-> null, applies |-> TRUE], calls |-> <<>>]
    ELSE IF ~IsArray(t) \/ Len(t.arr) < 2
         THEN [cb |-> [err |-> badImplementation("'RBAC target error: invalid format'")],
          calls |-> <<>>]
         ELSE evaluateTargetLoop(t, rs, dr, 1, <<>>)

----------------------------------------------------------------------------
(* Rules *)

\* the numeric code of a decision, as a JavaScript value
Code(n) == Str(ToString(n))

\* callback(null, result) and callback(Boom.badImplementation(msg))
Result(n) == [err |-> null, result |-> n]
Fault(msg) == [err |-> badImplementation(msg)]

\* the effect switch of evaluateRule
EffectOf(effect, calls0) ==
    IF StrictEq(effect, Str("'permit'")) \/ StrictEq(effect, Code(PERMIT))
    THEN [cb |-> Result(PERMIT), calls |-> calls0]
    ELSE IF StrictEq(effect, Str("'deny'")) \/ StrictEq(effect, Code(DENY))
         THEN [cb |-> Result(DENY), calls |-> calls0]
         ELSE [cb |-> Fault("'RBAC rule error: invalid effect'"), calls |-> calls0]

\* evaluateRule with the effect validated before the target is evaluated
evaluateRuleEffectFirst(r, rs, dr) ==
    IF ~Truthy(r)
    THEN [cb |-> Fault("'RBAC rule is missing'"), calls |-> <<>>]
    ELSE LET t == evaluateTarget(Prop(r, "target"), rs, dr)
         IN  IF "err" \in DOMAIN EffectOf(Prop(r, "effect"), <<>>).cb
                    /\ EffectOf(Prop(r, "effect"), <<>>).cb.err # null
             THEN EffectOf(Prop(r, "effect"), <<>>)
             ELSE IF "threw" \in DOMAIN t \/ t.cb.err # null
                  THEN t
                  ELSE IF ~t.cb.applies
                       THEN [cb |-> Result(UNDETERMINED), calls |-> t.calls]
                       ELSE EffectOf(Prop(r, "effect"), t.calls)

\* evaluateRule with a falsy effect taken as "no effect": the DENY code is 0
evaluateRuleFalsyEffect(r, rs, dr) ==
    IF ~Truthy(r)
    THEN [cb |-> Fault("'RBAC rule is missing'"), calls |-> <<>>]
    ELSE LET t == evaluateTarget(Prop(r, "target"), rs, dr)
         IN  IF "threw" \in DOMAIN t \/ t.cb.err # null
             THEN t
             ELSE IF ~t.cb.applies
                  THEN [cb |-> Result(UNDETERMINED), calls |-> t.calls]
                  ELSE IF ~Truthy(Prop(r, "effect"))
                       THEN [cb |-> Fault("'RBAC rule error: invalid effect'"),
                             calls |-> t.calls]
                       ELSE EffectOf(Prop(r, "effect"), t.calls)

\* internals.evaluateRule(rule, dataRetriever, callback): the callback's
\* arguments and the retriever invocations made, or [threw]
evaluateRule(r, rs, dr) ==
    IF ~Truthy(r)
    THEN [cb |-> Fault("'RBAC rule is missing'"), calls |-> <<>>]
    ELSE LET t == evaluateTarget(Prop(r, "target"), rs, dr)
             effect == Prop(r, "effect")
         IN  IF "threw" \in DOMAIN t
             THEN t
             ELSE IF t.cb.err # null
                  THEN t
                  ELSE IF ~t.cb.applies
                       THEN [cb |-> Result(UNDETERMINED), calls |-> t.calls]
                       ELSE EffectOf(effect, t.calls)

----------------------------------------------------------------------------
(* Combining algorithms, policies and policy sets *)

\* a function value: internals.combineAlg[name]
Function(name) == [fn |-> name]
IsFunction(v) == "fn" \in DOMAIN v

\* the names internals.combineAlg defines
combineAlg == {"'permit-overrides'", "'deny-overrides'"}

\* internals.combineAlg is a plain object: a lookup by name also finds what it
\* inherits from Object.prototype; these are the inherited functions
ObjectPrototype ==
    {"'constructor'", "'hasOwnProperty'", "'isPrototypeOf'",
     "'propertyIsEnumerable'", "'toLocaleString'", "'toString'", "'valueOf'"}

\* the place of a callback that was not invoked
Pending == [pending |-> TRUE]

Failed(c) == c # Pending /\ c.err # null

\* o.f = v
SetProp(o, f, v) == [n \in DOMAIN o \cup {f} |-> IF n = f THEN v ELSE o[n]]

\* permit-overrides deciding by the last result alone
permitOverridesResultsLast(results) ==
    IF results[Len(results)] = PERMIT THEN PERMIT ELSE DENY

\* the result loop of permit-overrides: the first PERMIT, else DENY
permitOverridesResults(results) ==
    IF \E i \in 1..Len(results) : results[i] = PERMIT THEN PERMIT ELSE DENY

\* deny-overrides leaving a list of UNDETERMINED results undetermined
denyOverridesResultsUndetermined(results) ==
    IF \E i \in 1..Len(results) : results[i] = DENY
    THEN DENY
    ELSE IF \A i \in 1..Len(results) : results[i] = UNDETERMINED
         THEN UNDETERMINED
         ELSE PERMIT

\* the result loop of deny-overrides: the first DENY, else PERMIT
denyOverridesResults(results) ==
    IF \E i \in 1..Len(results) : results[i] = DENY THEN DENY ELSE PERMIT

RECURSIVE evaluatePolicy(_, _, _)
RECURSIVE parallel(_, _, _, _, _, _)

\* one task of Async.parallel: fn.bind(null, items[i], information); the
\* [cb, calls, item] of the child, the child as the evaluation leaves it
Task(fn, child, rs, dr) ==
    IF fn = "evaluatePolicy"
    THEN evaluatePolicy(child, rs, dr)
    ELSE evaluateRule(child, rs, dr) @@ [item |-> child]

\* Async.parallel once task i has run and left r: an exception leaves the
\* iteration, anything else is recorded and the next task starts
parallelTask(fn, its, rs, dr, i, acc, r) ==
    IF "threw" \in DOMAIN r
    THEN [threw |-> r.threw, cbs |-> acc.cbs, calls |-> acc.calls \o r.calls,
          items |-> acc.items \o SubSeq(its, i, Len(its))]
    ELSE parallel(fn, its, rs, dr, i + 1,
                  [cbs |-> Append(acc.cbs, IF "cb" \in DOMAIN r THEN r.cb ELSE Pending),
                   calls |-> acc.calls \o r.calls,
                   items |-> Append(acc.items, r.item)])

\* Async.parallel(tasks, callback) over synchronous tasks, from task i on:
\* the tasks run in the order of the array, each one completing before the
\* next starts, also after one of them failed. acc is [cbs, calls, items] of
\* the tasks already run.
parallel(fn, its, rs, dr, i, acc) ==
    IF i > Len(its)
    THEN acc
    ELSE parallelTask(fn, its, rs, dr, i, acc, Task(fn, its[i], rs, dr))

\* the err Async.parallel hands to its callback, which it invokes once: the
\* error of the first task (in the order of the array) that failed, null when
\* none did
parallelErr(cbs) ==
    IF \E i \in 1..Len(cbs) : Failed(cbs[i])
    THEN cbs[CHOOSE i \in 1..Len(cbs) :
                /\ Failed(cbs[i])
                /\ \A j \in 1..(i - 1) : ~Failed(cbs[j])].err
    ELSE null

\* no task failed and some task never called back: Async.parallel never
\* invokes its callback
parallelPending(cbs) ==
    /\ parallelErr(cbs) = null
    /\ \E i \in 1..Len(cbs) : cbs[i] = Pending

\* the results Async.parallel hands to its callback when no task failed
parallelResults(cbs) == [i \in 1..Len(cbs) |-> cbs[i].result]

\* what a combining algorithm leaves once Async.parallel returned p and its
\* callback, if invoked, was invoked with args
Combined(p, args) ==
    IF "threw" \in DOMAIN p
    THEN [threw |-> p.threw, calls |-> p.calls, items |-> [arr |-> p.items]]
            @@ (IF parallelErr(p.cbs) # null THEN [cb |-> args] ELSE <<>>)
    ELSE IF parallelPending(p.cbs)
         THEN [calls |-> p.calls, items |-> [arr |-> p.items]]
         ELSE [cb |-> args, calls |-> p.calls, items |-> [arr |-> p.items]]

\* permit-overrides taking a failed child for an undetermined one
permitOverridesCallbackLenient(p) ==
    Combined(p, IF \E i \in 1..Len(p.cbs) : ~Failed(p.cbs[i]) /\ p.cbs[i] # Pending
                                              /\ p.cbs[i].result = PERMIT
                THEN Result(PERMIT)
                ELSE Result(DENY))

\* the callback permit-overrides hands to Async.parallel
permitOverridesCallback(p) ==
    Combined(p, IF parallelErr(p.cbs) # null
                THEN [err |-> parallelErr(p.cbs)]
                ELSE Result(permitOverridesResults(parallelResults(p.cbs))))

\* deny-overrides taking a failed child for an undetermined one
denyOverridesCallbackLenient(p) ==
    Combined(p, IF \E i \in 1..Len(p.cbs) : ~Failed(p.cbs[i]) /\ p.cbs[i] # Pending
                                              /\ p.cbs[i].result = DENY
                THEN Result(DENY)
                ELSE Result(PERMIT))

\* the callback deny-overrides hands to Async.parallel
denyOverridesCallback(p) ==
    Combined(p, IF parallelErr(p.cbs) # null
                THEN [err |-> parallelErr(p.cbs)]
                ELSE Result(denyOverridesResults(parallelResults(p.cbs))))

\* internals.combineAlg['permit-overrides'](items, information, fn, callback):
\* [cb, calls, items], the children as the evaluation leaves them; or [threw]
permitOverrides(its, fn, rs, dr) ==
    IF ~Truthy(its) \/ Len(its.arr) = 0
    THEN [cb |-> Result(UNDETERMINED), calls |-> <<>>, items |-> its]
    ELSE permitOverridesCallback(
             parallel(fn, its.arr, rs, dr, 1,
                      [cbs |-> <<>>, calls |-> <<>>, items |-> <<>>]))

\* internals.combineAlg['deny-overrides'](items, information, fn, callback)
denyOverrides(its, fn, rs, dr) ==
    IF ~Truthy(its) \/ Len(its.arr) = 0
    THEN [cb |-> Result(UNDETERMINED), calls |-> <<>>, items |-> its]
    ELSE denyOverridesCallback(
             parallel(fn, its.arr, rs, dr, 1,
                      [cbs |-> <<>>, calls |-> <<>>, items |-> <<>>]))

\* every name of internals.combineAlg bound to permit-overrides
combinePermitOverrides(alg, its, fn, rs, dr) == permitOverrides(its, fn, rs, dr)

\* the call item.apply(items, dataRetriever, fn, callback) of a function
\* found in internals.combineAlg; a function inherited from Object.prototype
\* returns without evaluating a child and without invoking the callback
combine(alg, its, fn, rs, dr) ==
    CASE alg = "'permit-overrides'" -> permitOverrides(its, fn, rs, dr)
      [] alg = "'deny-overrides'" -> denyOverrides(its, fn, rs, dr)
      [] alg \in ObjectPrototype -> [calls |-> <<>>, items |-> its]

\* what evaluatePolicy leaves for the item `it` whose target evaluation made
\* the invocations calls0, once the evaluation r of its children, or of the
\* item as a rule, is over; r.items, if any, are the children as r leaves them
Evaluated(it, field, calls0, r) ==
    [n \in (DOMAIN r \ {"items"}) \cup {"item"} |->
        CASE n = "item" -> IF "items" \in DOMAIN r
                           THEN [it EXCEPT ![field] = r.items]
                           ELSE it
          [] n = "calls" -> calls0 \o r.calls
          [] OTHER -> r[n]]

\* the callback of evaluatePolicy going on to the children whether the target
\* applies or not
evaluatePolicyCallbackEager(it, rs, dr, t) ==
    IF "threw" \in DOMAIN t
    THEN t @@ [item |-> it]
    ELSE IF t.cb.err # null
         THEN t @@ [item |-> it]
         ELSE IF Truthy(Prop(it, "policies"))
              THEN Evaluated(it, "policies", t.calls,
                       combine(it.apply.fn, Prop(it, "policies"),
                               "evaluatePolicy", rs, dr))
              ELSE IF Truthy(Prop(it, "rules"))
                   THEN Evaluated(it, "rules", t.calls,
                            combine(it.apply.fn, Prop(it, "rules"),
                                    "evaluateRule", rs, dr))
                   ELSE Evaluated(it, "rules", t.calls, evaluateRule(it, rs, dr))

\* the callback evaluatePolicy hands to evaluateTarget, invoked with t.cb
evaluatePolicyCallback(it, rs, dr, t) ==
    IF "threw" \in DOMAIN t
    THEN t @@ [item |-> it]
    ELSE IF t.cb.err # null
         THEN t @@ [item |-> it]
         ELSE IF ~t.cb.applies
              THEN [cb |-> Result(UNDETERMINED), calls |-> t.calls, item |-> it]
              ELSE IF Truthy(Prop(it, "policies"))
                   THEN Evaluated(it, "policies", t.calls,
                            combine(it.apply.fn, Prop(it, "policies"),
                                    "evaluatePolicy", rs, dr))
                   ELSE IF Truthy(Prop(it, "rules"))
                        THEN Evaluated(it, "rules", t.calls,
                                 combine(it.apply.fn, Prop(it, "rules"),
                                         "evaluateRule", rs, dr))
                        ELSE Evaluated(it, "rules", t.calls, evaluateRule(it, rs, dr))

\* evaluatePolicy once item.apply is defaulted: the name is looked up in
\* internals.combineAlg and item.apply becomes the function
evaluatePolicyApply(it, rs, dr) ==
    IF IsFunction(it.apply)
    THEN evaluatePolicyCallback(it, rs, dr, evaluateTarget(Prop(it, "target"), rs, dr))
    ELSE IF ~(IsScalar(it.apply) /\ it.apply.s \in combineAlg \cup ObjectPrototype)
         THEN [cb |-> Fault("'RBAC error: combinatory algorithm does not exist'"),
               calls |-> <<>>, item |-> it]
         ELSE evaluatePolicyCallback([it EXCEPT !.apply = Function(it.apply.s)], rs, dr,
                                     evaluateTarget(Prop(it, "target"), rs, dr))

\* internals.evaluatePolicy(item, dataRetriever, callback): [cb, calls, item],
\* the item as the evaluation leaves it (item.apply is assigned); or [threw]
evaluatePolicy(it, rs, dr) ==
    IF ~Truthy(it)
    THEN [cb |-> Fault("'RBAC configuration error: null item'"), calls |-> <<>>,
          item |-> it]
    ELSE evaluatePolicyApply(
             IF ~Truthy(Prop(it, "apply"))
             THEN SetProp(it, "apply", Str("'permit-overrides'"))
             ELSE it, rs, dr)

----------------------------------------------------------------------------
(* Bounded inputs *)

MaxItems == 2      \* match items of a target

SeqsUpTo(S, n) == UNION {[1..k -> S] : k \in 0..n}

\* the information a request carries: request.auth.credentials
Credentials ==
    { [username |-> Str("'alice'"),
       group |-> [arr |-> <<Str("'admin'"), Str("'writer'")>>]],
      [username |-> Str("'bob'"), group |-> Str("'admin'")],
      [group |-> [arr |-> <<>>]],
      null }

Contexts == {[auth |-> [credentials |-> c]] : c \in Credentials}
               \cup {[method |-> Str("'get'")]}

\* attribute references: 'username', 'credentials:group', 'query:x' (a source
\* nobody registered) and 'credentials:' (an empty key)
Types == {<<"username">>, <<"credentials", "group">>, <<"query", "x">>,
          <<"credentials", "">>}

Values == {Str("'alice'"), Str("'admin'"), null}

\* match items {type, value}, the value possibly missing
MatchItems == [type : Types, value : Values \cup {undefined}]

Combinators == {Str("'any-of'"), Str("'all-of'"), Str("'none-of'")}

\* a target that is no array: missing, null, a falsy scalar, a string, an object
OtherTargets ==
    {undefined, null, Str("''"), Str("false"), Str("0"), Str("'all-of'"),
     [username |-> Str("'alice'")]}

\* the targets of at most n match items
TargetsOfSize(n) ==
    {[arr |-> <<c>> \o its] : c \in Combinators, its \in SeqsUpTo(MatchItems, n)}
        \cup {[arr |-> <<>>]} \cup OtherTargets

Targets == TargetsOfSize(MaxItems)

\* rule effects: the two names, the numeric codes, and values that are neither
Effects ==
    {Str("'permit'"), Str("'deny'"), Code(PERMIT), Code(DENY), Code(UNDETERMINED),
     Str("'1'"), Str("'allow'"), Str("true"), null, undefined}

Rules == [target : TargetsOfSize(1), effect : Effects] \cup {null, undefined}

MaxChildren == 2   \* children of a policy or of a policy set

\* ['any-of', {type: 'username', value: 'alice'}]
AliceTarget ==
    [arr |-> <<Str("'any-of'"), [type |-> <<"username">>, value |-> Str("'alice'")]>>]

\* the targets of the nodes of a policy document: missing, one that applies
\* to alice alone, and the malformed ['all-of']
NodeTargets == {undefined, AliceTarget, [arr |-> <<Str("'all-of'")>>]}

RuleNodes ==
    [target : NodeTargets, effect : {Str("'permit'"), Str("'deny'"), Str("'allow'")}]
        \cup {null}

ArraysUpTo(S, n) == {[arr |-> a] : a \in SeqsUpTo(S, n)}

\* item.apply as configured: missing, the built-in names, an unknown name
Applies ==
    {undefined, Str("'permit-overrides'"), Str("'deny-overrides'"),
     Str("'first-applicable'"), Str("'toString'")}

PolicyNodes ==
    [target : NodeTargets, apply : Applies, rules : ArraysUpTo(RuleNodes, MaxChildren)]

\* the policies a policy set is made of
PoolPolicies ==
    [target : {undefined, AliceTarget},
     apply : {Str("'permit-overrides'"), Str("'deny-overrides'")},
     rules : {[arr |-> <<r>>] :
                r \in {[target |-> AliceTarget, effect |-> Str("'permit'")],
                       [target |-> AliceTarget, effect |-> Str("'deny'")],
                       [target |-> undefined, effect |-> Str("'allow'")]}}]

\* policies with a fault of their own: an unknown combining algorithm, a
\* malformed target, and a missing policy
FaultyPolicies ==
    { [target |-> undefined, apply |-> Str("'first-applicable'"),
       rules |-> [arr |-> <<[target |-> undefined, effect |-> Str("'permit'")]>>]],
      [target |-> [arr |-> <<Str("'all-of'")>>], apply |-> Str("'permit-overrides'"),
       rules |-> [arr |-> <<[target |-> undefined, effect |-> Str("'permit'")]>>]],
      null }

SetNodes ==
    [target : {undefined, AliceTarget},
     apply : {undefined, Str("'permit-overrides'"), Str("'deny-overrides'")},
     policies : ArraysUpTo(PoolPolicies \cup FaultyPolicies, MaxChildren)]

\* a rule whose target names the attribute 'credentials:', a reference with
\* an empty key, and a policy of that rule
EmptyKeyRule ==
    [target |-> [arr |-> <<Str("'any-of'"),
                           [type |-> <<"credentials", "">>, value |-> Str("'alice'")]>>],
     effect |-> Str("'permit'")]

EmptyKeyDocuments ==
    {EmptyKeyRule,
     [target |-> undefined, apply |-> Str("'permit-overrides'"),
      rules |-> [arr |-> <<[target |-> undefined, effect |-> Str("'deny'")],
                           EmptyKeyRule>>]]}

\* the policy documents
Documents == RuleNodes \cup PolicyNodes \cup SetNodes \cup EmptyKeyDocuments

\* the requests of alice and of bob
TreeContexts ==
    {[auth |-> [credentials |-> c]] :
        c \in {[username |-> Str("'alice'")], [username |-> Str("'bob'")]}}

\* the root router of exports.register, with the default retriever, and the
\* child created for one request
RootRouter ==
    _register(DataRetrievalRouter(<<>>), "credentials", "credentialsRetriever",
              [override |-> FALSE])

RoutersFor(context) ==
    LET rs == <<RootRouter>> IN rs \o <<createChild(rs, 1, context)>>

----------------------------------------------------------------------------
(* evaluateTarget applied to one target *)

InitTarget ==
    /\ pc = "evaluateTarget"
    /\ target \in Targets
    /\ routers \in {RoutersFor(c) : c \in Contexts}
    /\ dataRetriever = 2
    /\ rule = undefined /\ items = undefined /\ apply = undefined
    /\ item = undefined /\ cb = undefined /\ calls = <<>>
    /\ request = undefined /\ options = undefined /\ reply = undefined
    /\ call = undefined /\ tasks = undefined

EvaluateTarget ==
    /\ pc = "evaluateTarget"
    /\ LET r == evaluateTarget(target, routers, dataRetriever)
       IN  /\ pc' = IF "threw" \in DOMAIN r THEN "threw" ELSE "done"
           /\ cb' = IF "threw" \in DOMAIN r THEN undefined ELSE r.cb
           /\ calls' = calls \o r.calls
    /\ UNCHANGED <<call, tasks, routers, dataRetriever, target, rule, items, apply, item,
                   request, options, reply>>

NextTarget == EvaluateTarget

SpecTarget == InitTarget /\ [][NextTarget]_vars

----------------------------------------------------------------------------
(* evaluateRule applied to one rule *)

InitRule ==
    /\ pc = "evaluateRule"
    /\ rule \in Rules
    /\ routers \in {RoutersFor(c) : c \in Contexts}
    /\ dataRetriever = 2
    /\ target = undefined /\ items = undefined /\ apply = undefined
    /\ item = undefined /\ cb = undefined /\ calls = <<>>
    /\ request = undefined /\ options = undefined /\ reply = undefined
    /\ call = undefined /\ tasks = undefined

EvaluateRule ==
    /\ pc = "evaluateRule"
    /\ LET r == evaluateRule(rule, routers, dataRetriever)
       IN  /\ pc' = IF "threw" \in DOMAIN r THEN "threw" ELSE "done"
           /\ cb' = IF "threw" \in DOMAIN r THEN undefined ELSE r.cb
           /\ calls' = calls \o r.calls
    /\ UNCHANGED <<call, tasks, routers, dataRetriever, target, rule, items, apply, item,
                   request, options, reply>>

NextRule == EvaluateRule

SpecRule == InitRule /\ [][NextRule]_vars

----------------------------------------------------------------------------
(* A combining algorithm applied to a list of children *)

InitCombine ==
    /\ pc = "combineAlg"
    /\ \/ /\ apply \in [alg : combineAlg, fn : {"evaluateRule"}]
          /\ items \in ArraysUpTo(RuleNodes, MaxChildren) \cup {undefined}
       \/ /\ apply \in [alg : combineAlg, fn : {"evaluatePolicy"}]
          /\ items \in ArraysUpTo(PoolPolicies, MaxChildren)
    /\ routers \in {RoutersFor(c) : c \in TreeContexts}
    /\ dataRetriever = 2
    /\ target = undefined /\ rule = undefined
    /\ item = undefined /\ cb = undefined /\ calls = <<>>
    /\ request = undefined /\ options = undefined /\ reply = undefined
    /\ call = undefined /\ tasks = undefined

CombineAlg ==
    /\ pc = "combineAlg"
    /\ LET r == combine(apply.alg, items, apply.fn, routers, dataRetriever)
       IN  /\ pc' = CASE "threw" \in DOMAIN r -> "threw"
                      [] "cb" \in DOMAIN r -> "done"
                      [] OTHER -> "pending"
           /\ cb' = IF "cb" \in DOMAIN r THEN r.cb ELSE undefined
           /\ calls' = calls \o r.calls
           /\ items' = r.items
    /\ UNCHANGED <<call, tasks, routers, dataRetriever, target, rule, apply, item,
                   request, options, reply>>

NextCombine == CombineAlg

SpecCombine == InitCombine /\ [][NextCombine]_vars

----------------------------------------------------------------------------
(* evaluatePolicy applied to one policy document *)

InitPolicy ==
    /\ pc = "evaluatePolicy"
    /\ item \in Documents
    /\ routers \in {RoutersFor(c) : c \in TreeContexts}
    /\ dataRetriever = 2
    /\ target = undefined /\ rule = undefined /\ items = undefined
    /\ apply = undefined /\ cb = undefined /\ calls = <<>>
    /\ request = undefined /\ options = undefined /\ reply = undefined
    /\ call = undefined /\ tasks = undefined

EvaluatePolicy ==
    /\ pc = "evaluatePolicy"
    /\ LET r == evaluatePolicy(item, routers, dataRetriever)
       IN  /\ pc' = CASE "threw" \in DOMAIN r -> "threw"
                      [] "cb" \in DOMAIN r -> "done"
                      [] OTHER -> "pending"
           /\ cb' = IF "cb" \in DOMAIN r THEN r.cb ELSE undefined
           /\ calls' = calls \o r.calls
           /\ item' = r.item
    /\ UNCHANGED <<call, tasks, routers, dataRetriever, target, rule, items, apply,
                   request, options, reply>>

NextPolicy == EvaluatePolicy

SpecPolicy == InitPolicy /\ [][NextPolicy]_vars

----------------------------------------------------------------------------
(* Calls on the routers: a root, and the children created from it *)

MaxRouters == 3    \* the root and its children

Sources == {"credentials", "test"}

\* register's handles: 'test' and ['credentials', 'test']
HandleLists == {<<"test">>, <<"credentials", "test">>}

TestRetrievers == {"retriever1", "retriever2"}

RegisterOptionSets == {<<>>, [override |-> TRUE]}

\* get's keys: 'k', 'credentials:k', 'test:k', 'query:k' (a source nobody
\* registers) and 'test:k:x'
Keys == {<<"k">>, <<"credentials", "k">>, <<"test", "k">>, <<"query", "k">>,
         <<"test", "k", "x">>}

\* the context a child is created with and the ones get is called with
ChildContext == [auth |-> [credentials |-> [username |-> Str("'alice'")]]]

GetContexts == {undefined, [auth |-> [credentials |-> [username |-> Str("'bob'")]]]}

InitRouter ==
    /\ pc = "router"
    /\ routers = <<DataRetrievalRouter(<<>>)>>
    /\ dataRetriever = 1
    /\ call = undefined /\ tasks = undefined /\ calls = <<>>
    /\ target = undefined /\ rule = undefined /\ items = undefined
    /\ apply = undefined /\ item = undefined /\ cb = undefined
    /\ request = undefined /\ options = undefined /\ reply = undefined

\* routers[i].register(handles, retriever, opts); the root is set up before a
\* child is created from it, as exports.register does. call.before is the
\* router's table as the call found it.
Register(i, handles, retriever, opts) ==
    /\ pc = "router"
    /\ i = 1 => Len(routers) = 1
    /\ routers' = [routers EXCEPT
                     ![i] = register(routers[i], handles, retriever, opts).router]
    /\ call' = [op |-> "register", router |-> i, handles |-> handles,
                retriever |-> retriever, options |-> opts,
                before |-> routers[i].retrievers,
                threw |-> "threw" \in DOMAIN register(routers[i], handles, retriever, opts)]
    /\ calls' = <<>>
    /\ UNCHANGED <<pc, tasks, dataRetriever, target, rule, items, apply, item, cb,
                   request, options, reply>>

\* routers[1].createChild(ChildContext)
CreateChild ==
    /\ pc = "router"
    /\ Len(routers) < MaxRouters
    /\ routers' = Append(routers, createChild(routers, 1, ChildContext))
    /\ call' = [op |-> "createChild", router |-> 1, context |-> ChildContext]
    /\ calls' = <<>>
    /\ UNCHANGED <<pc, tasks, dataRetriever, target, rule, items, apply, item, cb,
                   request, options, reply>>

\* routers[i].get(key, context)
Get(i, key, context) ==
    /\ pc = "router"
    /\ call' = [op |-> "get", router |-> i, key |-> key, context |-> context,
                returned |-> get(routers, i, key, context).value]
    /\ calls' = get(routers, i, key, context).calls
    /\ UNCHANGED <<pc, tasks, routers, dataRetriever, target, rule, items, apply, item,
                   cb, request, options, reply>>

NextRouter ==
    \/ \E i \in 1..Len(routers), handles \in HandleLists,
          retriever \in TestRetrievers, opts \in RegisterOptionSets :
          Register(i, handles, retriever, opts)
    \/ CreateChild
    \/ \E i \in 1..Len(routers), key \in Keys, context \in GetContexts :
          Get(i, key, context)

SpecRouter == InitRouter /\ [][NextRouter]_vars

----------------------------------------------------------------------------
(* A combining algorithm whose children call back in any order: a child's  *)
(* `apply` may be a function that calls back later                         *)

\* Async.parallel deciding as soon as one task called back
parallelDoneAny(ts) == \E i \in 1..Len(ts) : ts[i] # Pending

\* Async.parallel heard from every task
parallelDone(ts) == \A i \in 1..Len(ts) : ts[i] # Pending

\* the callbacks received so far, in the order of the tasks
Received(ts) == SelectSeq(ts, LAMBDA c : c # Pending)

\* what Async.parallel does with the node's callback when a task has called
\* back and left ts: the error of a failed task at once, the decision of the
\* algorithm's result loop once every task called back, nothing before
parallelCallback(alg, ts) ==
    IF parallelErr(ts) # null
    THEN [err |-> parallelErr(ts)]
    ELSE IF parallelDone(ts)
         THEN IF alg = "'permit-overrides'"
              THEN Result(permitOverridesResults(parallelResults(Received(ts))))
              ELSE Result(denyOverridesResults(parallelResults(Received(ts))))
         ELSE Pending

\* the policies of a policy set: permitting alice, denying alice, of an
\* invalid effect, and one whose `apply` never calls back
ParallelPolicies ==
    {q \in PoolPolicies : q.target = undefined /\ q.apply = Str("'permit-overrides'")}
        \cup {[target |-> undefined, apply |-> Str("'toString'"),
               rules |-> [arr |-> <<[target |-> undefined, effect |-> Str("'permit'")]>>]]}

InitParallel ==
    /\ pc = "combineAlg"
    /\ \/ /\ apply \in [alg : combineAlg, fn : {"evaluateRule"}]
          /\ items \in ArraysUpTo(RuleNodes, MaxChildren) \cup {undefined}
       \/ /\ apply \in [alg : combineAlg, fn : {"evaluatePolicy"}]
          /\ items \in ArraysUpTo(ParallelPolicies, MaxChildren)
    /\ routers \in {RoutersFor(c) : c \in TreeContexts}
    /\ dataRetriever = 2
    /\ tasks = <<>> /\ cb = Pending /\ calls = <<>> /\ call = undefined
    /\ target = undefined /\ rule = undefined /\ item = undefined
    /\ request = undefined /\ options = undefined /\ reply = undefined

\* the algorithm up to its call of Async.parallel
StartParallel ==
    /\ pc = "combineAlg"
    /\ IF ~Truthy(items) \/ Len(items.arr) = 0
       THEN /\ pc' = "done"
            /\ cb' = Result(UNDETERMINED)
            /\ UNCHANGED tasks
       ELSE /\ pc' = "parallel"
            /\ tasks' = [i \in 1..Len(items.arr) |-> Pending]
            /\ UNCHANGED cb
    /\ UNCHANGED <<call, routers, dataRetriever, target, rule, items, apply, item,
                   calls, request, options, reply>>

\* task i, fn(items[i], information, callback), runs and calls back;
\* Async.parallel invokes the node's callback at most once
TaskCallsBack(i) ==
    /\ pc = "parallel"
    /\ tasks[i] = Pending
    /\ LET r == Task(apply.fn, items.arr[i], routers, dataRetriever)
       IN  /\ "cb" \in DOMAIN r
           /\ tasks' = [tasks EXCEPT ![i] = r.cb]
           /\ items' = [items EXCEPT !.arr[i] = r.item]
           /\ calls' = calls \o r.calls
    /\ cb' = IF cb = Pending THEN parallelCallback(apply.alg, tasks') ELSE cb
    /\ call' = [op |-> "callback", task |-> i]
    /\ pc' = IF parallelDone(tasks') THEN "done" ELSE "parallel"
    /\ UNCHANGED <<routers, dataRetriever, target, rule, apply, item,
                   request, options, reply>>

NextParallel ==
    \/ StartParallel
    \/ \E i \in 1..Len(tasks) : TaskCallsBack(i)

SpecParallel == InitParallel /\ [][NextParallel]_vars

----------------------------------------------------------------------------
(* The plugin: options, the onPostAuth handler and its reply *)

IsObject(v) == ~IsScalar(v) /\ ~IsArray(v) /\ ~IsFunction(v)

\* Hoek.applyToDefaults(defaults, opts): opts' properties win, objects merge
RECURSIVE applyToDefaults(_, _)
applyToDefaults(defaults, opts) ==
    [n \in DOMAIN defaults \cup DOMAIN opts |->
        CASE n \notin DOMAIN opts -> defaults[n]
          [] n \notin DOMAIN defaults -> opts[n]
          [] IsObject(defaults[n]) /\ IsObject(opts[n]) ->
                applyToDefaults(defaults[n], opts[n])
          [] OTHER -> opts[n]]

\* defaults.options
defaults_options ==
    [onError |-> Function("onError"),
     responseCode |-> [onDeny |-> Str("401"), onUndetermined |-> Str("401")],
     dataRetrievers |-> [arr |-> <<>>]]

\* a rejection: the error the handler's catch receives
Rejected(err) == [err |-> err]

\* an Error that is not a Boom; Boom.boomify(err, statusCode)
Error(message) == [isBoom |-> FALSE, message |-> message]

boomify(err, statusCode) == Boom(err.message, statusCode)

\* internals.retrievePolicy(config, request): the policy the promise resolves
\* with, or the error it rejects with when the retrieval function throws
retrievePolicy(config, req) ==
    IF IsFunction(config)
    THEN IF "throws" \in DOMAIN config
         THEN Rejected(Error(config.throws))
         ELSE [err |-> null, policy |-> config.returns]
    ELSE [err |-> null, policy |-> config]

\* internals.evaluatePolicy(policy, wrappedDataRetriever): the promise settles
\* with what the engine called back, or rejects with what the engine threw; it
\* stays pending when the engine does neither
evaluatePolicyPromise(r) ==
    CASE "threw" \in DOMAIN r -> Rejected(Error(r.threw))
      [] "cb" \in DOMAIN r -> r.cb
      [] OTHER -> Pending

\* h.continue, and the response an error thrown from the handler produces
continue == [continue |-> TRUE]

Response(err) == [statusCode |-> err.output.statusCode, message |-> err.message]

\* defaults.options.onError(request, h, err)
onError(req, err) == Response(IF err.isBoom THEN err ELSE boomify(err, Str("401")))

\* a handler that always answers a DENY with 401
NoPermissionsUnauthorized(opts) ==
    Boom("'No permissions to access this resource'", Str("401"))

\* the handler's branches on the awaited result
NoPermissions(opts) ==
    Boom("'No permissions to access this resource'", opts.responseCode.onDeny)

CouldNotEvaluate(opts) ==
    Boom("'Could not evaluate access rights to resource'",
         opts.responseCode.onUndetermined)

replyAllowingUndetermined(req, opts, settled) ==
    CASE settled.err # null -> onError(req, settled.err)
      [] settled.result = DENY -> onError(req, NoPermissions(opts))
      [] OTHER -> continue

replyOf(req, opts, settled) ==
    CASE settled.err # null -> onError(req, settled.err)
      [] settled.result = DENY -> onError(req, NoPermissions(opts))
      [] settled.result = UNDETERMINED -> onError(req, CouldNotEvaluate(opts))
      [] OTHER -> continue

\* a handler that takes only a missing policy for "no policy"
noPolicyMissingOnly(policy) == ~Truthy(policy)

\* !policy || policy === CONFIG_NONE
noPolicy(policy) == ~Truthy(policy) \/ policy = Str(CONFIG_NONE)

\* request.route.settings.plugins.rbac || options.policy
routeConfig(req) == Prop(req.route.settings.plugins, "rbac")

\* a handler that prefers the global policy
configOfGlobalFirst(req, opts) ==
    IF Truthy(Prop(opts, "policy")) THEN opts.policy ELSE routeConfig(req)

configOf(req, opts) ==
    IF Truthy(routeConfig(req)) THEN routeConfig(req) ELSE Prop(opts, "policy")

\* what a route or the plugin is configured with: policy documents ...
HostDocuments ==
    (RuleNodes \ {null}) \cup PoolPolicies
        \cup {s \in SetNodes :
                /\ s.target = undefined
                /\ \A i \in 1..Len(s.policies.arr) :
                      /\ s.policies.arr[i] \in PoolPolicies
                      /\ s.policies.arr[i].apply = Str("'permit-overrides'")}

\* ... and policy retrieval functions: returning a document, null or 'none',
\* or throwing
PolicyRetrievers ==
    {[fn |-> "policyRetriever", returns |-> p] :
        p \in {null, Str(CONFIG_NONE)} \cup (RuleNodes \ {null})}
      \cup {[fn |-> "policyRetriever", throws |-> "'policy retrieval failed'"]}

RouteConfigs == {undefined, Str(CONFIG_NONE)} \cup HostDocuments \cup PolicyRetrievers

\* the options handed to register: a global policy (a document that permits
\* alice alone, or a function), and response codes
GlobalPolicies ==
    { [apply |-> Str("'permit-overrides'"),
       rules |-> [arr |-> <<[target |-> AliceTarget, effect |-> Str("'permit'")]>>]],
      [fn |-> "policyRetriever", returns |-> [effect |-> Str("'deny'")]] }

ResponseCodes ==
    {<<>>, [onDeny |-> Str("403")], [onUndetermined |-> Str("404")],
     [onDeny |-> Str("403"), onUndetermined |-> Str("404")]}

RegisterOptions ==
    {<<>>} \cup [policy : GlobalPolicies]
           \cup [responseCode : ResponseCodes]
           \cup [policy : GlobalPolicies, responseCode : ResponseCodes]

Requests ==
    {[route |-> [settings |-> [plugins |-> p]], auth |-> c.auth] :
        p \in {<<>>} \cup [rbac : RouteConfigs \ {undefined}], c \in TreeContexts}

\* exports.plugin.register, then a request reaching onPostAuth
Init ==
    /\ pc = "onPostAuth"
    /\ options \in {applyToDefaults(defaults_options, o) : o \in RegisterOptions}
    /\ routers = <<RootRouter>>
    /\ dataRetriever = 1
    /\ request \in Requests
    /\ target = undefined /\ rule = undefined /\ items = undefined
    /\ apply = undefined /\ item = undefined /\ cb = undefined
    /\ calls = <<>> /\ reply = undefined /\ call = undefined /\ tasks = undefined

\* the handler up to `await internals.retrievePolicy(config, request)`
OnPostAuth ==
    /\ pc = "onPostAuth"
    /\ IF Truthy(configOf(request, options))
             /\ configOf(request, options) # Str(CONFIG_NONE)
       THEN /\ pc' = "retrievePolicy"
            /\ cb' = retrievePolicy(configOf(request, options), request)
            /\ UNCHANGED reply
       ELSE /\ pc' = "done"
            /\ reply' = continue
            /\ UNCHANGED cb
    /\ UNCHANGED <<call, tasks, routers, dataRetriever, target, rule, items, apply, item,
                   calls, request, options>>

\* the policy document as evaluatePolicy leaves it, seen where it is configured
Configured(req, opts, doc) ==
    CASE IsFunction(configOf(req, opts)) -> [request |-> req, options |-> opts]
      [] Truthy(routeConfig(req)) ->
            [request |-> [req EXCEPT !.route.settings.plugins.rbac = doc],
             options |-> opts]
      [] OTHER -> [request |-> req, options |-> [opts EXCEPT !.policy = doc]]

\* the handler from the retrieved policy up to
\* `await internals.evaluatePolicy(policy, dataRetriever.createChild(request))`
RetrievePolicy ==
    /\ pc = "retrievePolicy"
    /\ IF cb.err # null
       THEN /\ pc' = "done"
            /\ reply' = onError(request, cb.err)
            /\ UNCHANGED <<routers, dataRetriever, item, cb, calls, request, options>>
       ELSE IF noPolicy(cb.policy)
       THEN /\ pc' = "done"
            /\ reply' = continue
            /\ UNCHANGED <<routers, dataRetriever, item, cb, calls, request, options>>
       ELSE /\ pc' = "evaluatePolicy"
            /\ routers' = Append(routers, createChild(routers, dataRetriever, request))
            /\ dataRetriever' = Len(routers')
            /\ LET r == evaluatePolicy(cb.policy, routers', dataRetriever')
               IN  /\ cb' = evaluatePolicyPromise(r)
                   /\ calls' = calls \o r.calls
                   /\ item' = r.item
                   /\ request' = Configured(request, options, r.item).request
                   /\ options' = Configured(request, options, r.item).options
            /\ UNCHANGED reply
    /\ UNCHANGED <<call, tasks, target, rule, items, apply>>

\* the handler from the awaited result to its return
Reply ==
    /\ pc = "evaluatePolicy"
    /\ cb # Pending
    /\ pc' = "done"
    /\ reply' = replyOf(request, options, cb)
    /\ UNCHANGED <<call, tasks, routers, dataRetriever, target, rule, items, apply, item,
                   cb, calls, request, options>>

Next == OnPostAuth \/ RetrievePolicy \/ Reply

Spec == Init /\ [][Next]_vars

----------------------------------------------------------------------------
(* Several requests in flight: one policy document, one root router *)

MaxRequests == 2   \* requests in flight

\* the document configured: a rule, a policy, or a policy set of a policy
\* permitting alice and a policy denying her
RequestDocuments ==
    (RuleNodes \ {null}) \cup PoolPolicies
        \cup {[target |-> undefined, apply |-> a,
               policies |-> [arr |-> <<
                   [target |-> undefined, apply |-> Str("'permit-overrides'"),
                    rules |-> [arr |-> <<[target |-> AliceTarget,
                                          effect |-> Str("'permit'")]>>]],
                   [target |-> AliceTarget, apply |-> Str("'deny-overrides'"),
                    rules |-> [arr |-> <<[target |-> undefined,
                                          effect |-> Str("'deny'")]>>]]>>]] :
                 a \in {undefined, Str("'deny-overrides'")}}

\* options.policy: the document, or a function that calls back with it later
SharedConfigs ==
    RequestDocuments
        \cup {[fn |-> "policyRetriever", returns |-> d] : d \in RequestDocuments}

\* the callback the handler hands to evaluatePolicy: what it replies, a
\* Boom.unauthorized(message) for DENY and for UNDETERMINED
replyOfCallback(args) ==
    CASE args.err # null -> args.err
      [] args.result = DENY ->
            Boom("'No permissions to access this resource'", Str("401"))
      [] args.result = UNDETERMINED ->
            Boom("'Could not evaluate access rights to resource'", Str("401"))
      [] OTHER -> continue

\* exports.register, then requests reaching onPostAuth on a route without a
\* configuration of its own. options is what register was handed; item is the
\* policy object as it is now.
InitRequests ==
    /\ options \in [policy : SharedConfigs]
    /\ item = IF IsFunction(options.policy) THEN options.policy.returns
              ELSE options.policy
    /\ request \in [1..MaxRequests -> TreeContexts]
    /\ pc = [r \in 1..MaxRequests |-> "onPostAuth"]
    /\ cb = [r \in 1..MaxRequests |-> Pending]
    /\ reply = [r \in 1..MaxRequests |-> undefined]
    /\ calls = [r \in 1..MaxRequests |-> <<>>]
    /\ routers = <<RootRouter>>
    /\ dataRetriever = 1
    /\ target = undefined /\ rule = undefined /\ items = undefined
    /\ apply = undefined /\ call = undefined /\ tasks = undefined

\* the callback of retrievePolicy for request r, invoked with (null, item):
\* a child router for the request (rs is the routers with it), the evaluation
\* (e is what it leaves), and the reply
PolicyCallback(r, rs, e) ==
    IF noPolicy(item)
    THEN /\ pc' = [pc EXCEPT ![r] = "done"]
         /\ reply' = [reply EXCEPT ![r] = continue]
         /\ UNCHANGED <<routers, item, calls, cb>>
    ELSE /\ routers' = rs
         /\ item' = e.item
         /\ calls' = [calls EXCEPT ![r] = e.calls]
         /\ cb' = [cb EXCEPT ![r] = IF "cb" \in DOMAIN e THEN e.cb ELSE Pending]
         /\ reply' = [reply EXCEPT ![r] = IF "cb" \in DOMAIN e
                                           THEN replyOfCallback(e.cb)
                                           ELSE undefined]
         /\ pc' = [pc EXCEPT ![r] = CASE "threw" \in DOMAIN e -> "threw"
                                       [] "cb" \in DOMAIN e -> "done"
                                       [] OTHER -> "pending"]

\* dataRetriever.createChild(request) for request r: the routers with the child
WithChild(r) == Append(routers, createChild(routers, dataRetriever, request[r]))

\* the onPostAuth handler for request r: retrievePolicy calls the function
\* configured, which calls back later, or calls back itself with the document
OnPostAuthOf(r) ==
    /\ pc[r] = "onPostAuth"
    /\ IF IsFunction(options.policy)
       THEN /\ pc' = [pc EXCEPT ![r] = "retrievePolicy"]
            /\ UNCHANGED <<routers, item, calls, cb, reply>>
       ELSE PolicyCallback(r, WithChild(r),
                           evaluatePolicy(item, WithChild(r), Len(routers) + 1))
    /\ UNCHANGED <<call, tasks, dataRetriever, target, rule, items, apply,
                   request, options>>

\* the function configured calls back with the document for request r
PolicyRetrieved(r) ==
    /\ pc[r] = "retrievePolicy"
    /\ PolicyCallback(r, WithChild(r),
                      evaluatePolicy(item, WithChild(r), Len(routers) + 1))
    /\ UNCHANGED <<call, tasks, dataRetriever, target, rule, items, apply,
                   request, options>>

NextRequests ==
    \/ \E r \in 1..MaxRequests : OnPostAuthOf(r)
    \/ \E r \in 1..MaxRequests : PolicyRetrieved(r)

SpecRequests == InitRequests /\ [][NextRequests]_vars

----------------------------------------------------------------------------
(* Properties of rules and targets *)

\* the attribute the router resolves for a reference, without a context argument
Resolved(type) == get(routers, dataRetriever, type, undefined)

\* a match item matches: the resolved attribute is strictly equal to the
\* item's value, or is a list containing it
ItemMatches(it) ==
    LET a == Resolved(it.type).value
        v == Prop(it, "value")
    IN  \/ IsScalar(a) /\ IsScalar(v) /\ a.s = v.s
        \/ /\ IsArray(a)
           /\ \E j \in 1..Len(a.arr) : IsScalar(v) /\ a.arr[j].s = v.s

\* t is ['any-of' | 'all-of', item, ...] with at least one item, and every
\* item's type is a reference the router accepts
WellFormedTarget(t) ==
    /\ IsArray(t)
    /\ Len(t.arr) >= 2
    /\ t.arr[1] \in {Str("'any-of'"), Str("'all-of'")}
    /\ \A i \in 2..Len(t.arr) : "threw" \notin DOMAIN Resolved(t.arr[i].type)

\* the rule's target, evaluated on its own
RuleTarget == evaluateTarget(Prop(rule, "target"), routers, dataRetriever)

RuleTargetApplies ==
    /\ "threw" \notin DOMAIN RuleTarget
    /\ RuleTarget.cb.err = null
    /\ RuleTarget.cb.applies

RuleTargetDoesNotApply ==
    /\ "threw" \notin DOMAIN RuleTarget
    /\ RuleTarget.cb.err = null
    /\ ~RuleTarget.cb.applies

\* C6: a rule whose target does not apply yields UNDETERMINED, and no error,
\* whatever its effect is (a name, a numeric code, missing or invalid).
C6_NonApplyingRuleUndetermined ==
    (pc # "evaluateRule" /\ Truthy(rule) /\ RuleTargetDoesNotApply)
        => (pc = "done" /\ cb = Result(UNDETERMINED))

C6_Witness ==
    /\ pc = "done"
    /\ Truthy(rule)
    /\ RuleTargetDoesNotApply
    /\ rule.effect = Str("'allow'")
    /\ cb = Result(UNDETERMINED)

\* C7: a rule whose target applies yields PERMIT for 'permit' or the PERMIT
\* code, DENY for 'deny' or the DENY code, and for every other effect (a
\* missing one included) an 'invalid effect' error and no decision.
C7_ApplyingRuleEffect ==
    (pc # "evaluateRule" /\ Truthy(rule) /\ RuleTargetApplies)
        => /\ pc = "done"
           /\ rule.effect \in {Str("'permit'"), Str("1")} => cb = Result(PERMIT)
           /\ rule.effect \in {Str("'deny'"), Str("0")} => cb = Result(DENY)
           /\ rule.effect \notin {Str("'permit'"), Str("1"), Str("'deny'"), Str("0")}
                 => cb = Fault("'RBAC rule error: invalid effect'")

C7_Witness ==
    /\ pc = "done"
    /\ Truthy(rule)
    /\ RuleTargetApplies
    /\ IsArray(rule.target)
    /\ rule.effect = Str("0")
    /\ cb = Result(DENY)

\* C8: a missing target applies, for every context, and no retriever is called.
C8_AbsentTargetApplies ==
    (pc # "evaluateTarget" /\ target = undefined)
        => (pc = "done" /\ cb = [err |-> null, applies |-> TRUE] /\ calls = <<>>)

C8_Witness ==
    /\ pc = "done"
    /\ target = undefined
    /\ routers[dataRetriever].context = [method |-> Str("'get'")]
    /\ cb = [err |-> null, applies |-> TRUE]

\* the target with its match items reordered by p
Permuted(t, p) ==
    [arr |-> <<t.arr[1]>> \o [i \in 1..(Len(t.arr) - 1) |-> t.arr[p[i] + 1]]]

PermutationsOf(n) ==
    {p \in [1..n -> 1..n] : \A i, j \in 1..n : p[i] = p[j] => i = j}

\* C9: for a target ['any-of', items] or ['all-of', items] of one or more
\* items whose references the router accepts, evaluateTarget reports applies =
\* (some item matches), respectively (every item matches), and reports the
\* same for every permutation of the items.
C9_AnyOfAllOf ==
    (pc # "evaluateTarget" /\ WellFormedTarget(target))
        => /\ pc = "done"
           /\ cb.err = null
           /\ cb.applies =
                IF target.arr[1] = Str("'any-of'")
                THEN \E i \in 2..Len(target.arr) : ItemMatches(target.arr[i])
                ELSE \A i \in 2..Len(target.arr) : ItemMatches(target.arr[i])
           /\ \A p \in PermutationsOf(Len(target.arr) - 1) :
                evaluateTarget(Permuted(target, p), routers, dataRetriever).cb = cb

C9_Witness ==
    /\ pc = "done"
    /\ WellFormedTarget(target)
    /\ Len(target.arr) = 3
    /\ target.arr[1] = Str("'any-of'")
    /\ ~ItemMatches(target.arr[2])
    /\ ItemMatches(target.arr[3])
    /\ IsArray(Resolved(target.arr[3].type).value)
    /\ cb = [err |-> null, applies |-> TRUE]

----------------------------------------------------------------------------
(* Properties of the combining algorithms *)

\* the evaluation of child i of a list of children by fn, on its own
Child(fn, children, i) == Task(fn, children.arr[i], routers, dataRetriever)

\* every child completes without error
ChildrenComplete(fn, children) ==
    \A i \in 1..Len(children.arr) :
        /\ "threw" \notin DOMAIN Child(fn, children, i)
        /\ "cb" \in DOMAIN Child(fn, children, i)
        /\ Child(fn, children, i).cb.err = null

\* some child yields the decision d
SomeChildYields(fn, children, d) ==
    \E i \in 1..Len(children.arr) : Child(fn, children, i).cb.result = d

\* C1: permit-overrides over children that all complete without error yields
\* UNDETERMINED for an empty or missing list, else PERMIT when some child
\* yields PERMIT, else DENY.
C1_PermitOverrides ==
    (/\ pc # "combineAlg"
     /\ apply.alg = "'permit-overrides'"
     /\ (items # undefined => ChildrenComplete(apply.fn, items)))
        => /\ pc = "done"
           /\ cb = IF items = undefined \/ Len(items.arr) = 0
                   THEN Result(UNDETERMINED)
                   ELSE IF SomeChildYields(apply.fn, items, 1)
                        THEN Result(PERMIT)
                        ELSE Result(DENY)

C1_Witness ==
    /\ pc = "done"
    /\ apply.alg = "'permit-overrides'"
    /\ items # undefined
    /\ Len(items.arr) = 2
    /\ ChildrenComplete(apply.fn, items)
    /\ Child(apply.fn, items, 1).cb.result = PERMIT
    /\ Child(apply.fn, items, 2).cb.result = DENY
    /\ cb = Result(PERMIT)

ItemChildren == IF Truthy(Prop(item, "policies")) THEN item.policies ELSE item.rules

ItemFn == IF Truthy(Prop(item, "policies")) THEN "evaluatePolicy" ELSE "evaluateRule"

ItemTarget == evaluateTarget(Prop(item, "target"), routers, dataRetriever)

CompositeOfUndetermined ==
    /\ pc # "evaluatePolicy"
    /\ Truthy(item)
    /\ Truthy(Prop(item, "policies")) \/ Truthy(Prop(item, "rules"))
    /\ IsFunction(item.apply)
    /\ item.apply.fn \in combineAlg
    /\ ItemTarget.cb.err = null
    /\ ItemTarget.cb.applies
    /\ ChildrenComplete(ItemFn, ItemChildren)
    /\ \A i \in 1..Len(ItemChildren.arr) : Child(ItemFn, ItemChildren, i).cb.result = UNDETERMINED

----------------------------------------------------------------------------
(* Malformed targets *)

\* a present target that is not an array, or an array with no match item
MalformedTarget(t) ==
    /\ t \notin {undefined, null}
    /\ ~IsArray(t) \/ Len(t.arr) < 2

\* C10: a rule whose target is present but is not an array, or is an array
\* holding no match item, ends with an error: never with UNDETERMINED, DENY
\* or any other result.
C10_MalformedTargetIsError ==
    (pc # "evaluateRule" /\ Truthy(rule) /\ MalformedTarget(Prop(rule, "target")))
        => (pc = "done" /\ cb.err # null)

----------------------------------------------------------------------------
(* Properties of the onPostAuth handler *)

\* the request went through evaluatePolicy and the handler has answered
Answered == pc = "done" /\ item # undefined

\* C5: when the configured policy was evaluated, the request continues only
\* if the evaluation delivered PERMIT; DENY, UNDETERMINED and an error are
\* answered with an error response.
C5_ContinueOnlyOnPermit ==
    Answered
        => /\ reply = continue => cb = Result(PERMIT)
           /\ (cb.err # null \/ cb.result \in {DENY, UNDETERMINED})
                 => (reply # continue /\ "statusCode" \in DOMAIN reply)

C5_Witness ==
    /\ Answered
    /\ cb = Result(UNDETERMINED)
    /\ reply = Response(CouldNotEvaluate(options))

\* the rules an evaluation of doc reaches: those of the nodes whose own
\* target, and whose ancestors' targets, apply
RECURSIVE ReachedRules(_)
ReachedRules(doc) ==
    LET t == evaluateTarget(Prop(doc, "target"), routers, dataRetriever)
    IN  IF "threw" \in DOMAIN t \/ t.cb.err # null \/ ~t.cb.applies
        THEN {}
        ELSE IF Truthy(Prop(doc, "policies"))
        THEN UNION {ReachedRules(doc.policies.arr[i]) :
                        i \in 1..Len(doc.policies.arr)}
        ELSE IF Truthy(Prop(doc, "rules"))
        THEN {doc.rules.arr[i] : i \in 1..Len(doc.rules.arr)}
        ELSE {doc}

RuleDoesNotApply(r) ==
    LET t == evaluateTarget(Prop(r, "target"), routers, dataRetriever)
    IN  /\ "threw" \notin DOMAIN t
        /\ t.cb.err = null
        /\ ~t.cb.applies

\* C3: when no rule reached by the evaluation of the configured policy has a
\* target that applies, and the evaluation ends without an error, the request
\* does not continue to the route handler.
C3_NoApplyingRuleNeverContinues ==
    (/\ Answered
     /\ cb.err = null
     /\ \A r \in ReachedRules(item) : Truthy(r) /\ RuleDoesNotApply(r))
        => reply # continue

----------------------------------------------------------------------------
(* Combinators of a target *)

\* C11: a target array with at least one match item whose first element is
\* neither 'any-of' nor 'all-of' ends evaluateTarget with an error, never
\* with "applies" or "does not apply".
C11_InvalidCombinatorIsError ==
    (/\ pc = "done"
     /\ IsArray(target)
     /\ Len(target.arr) >= 2
     /\ target.arr[1] \notin {Str("'any-of'"), Str("'all-of'")})
        => cb.err # null

----------------------------------------------------------------------------
(* Unknown combining algorithms *)

\* the node was configured with an `apply` that is a string other than
\* 'permit-overrides' and 'deny-overrides': evaluatePolicy leaves the string
\* when it rejects it, and the function it found when it accepts it
UnknownApply ==
    /\ Truthy(item)
    /\ "apply" \in DOMAIN item
    /\ \/ IsScalar(item.apply) /\ Truthy(item.apply) /\ item.apply.s \notin combineAlg
       \/ IsFunction(item.apply) /\ item.apply.fn \notin combineAlg

\* C12: a node whose `apply` is a string other than the two built-in names
\* makes evaluatePolicy call back with a configuration error, before the
\* node's target is resolved (no retriever is invoked).
C12_UnknownApplyIsError ==
    (pc # "evaluatePolicy" /\ UnknownApply)
        => /\ pc = "done"
           /\ cb = Fault("'RBAC error: combinatory algorithm does not exist'")
           /\ calls = <<>>

----------------------------------------------------------------------------
(* Propagation of configuration faults *)

\* evaluateRule calls back an error for r: a missing rule, a target that
\* evaluateTarget rejects, an invalid effect of a rule whose target applies
RuleRaisesFault(r) ==
    \/ ~Truthy(r)
    \/ LET t == evaluateTarget(Prop(r, "target"), routers, dataRetriever)
       IN  /\ "threw" \notin DOMAIN t
           /\ \/ t.cb.err # null
              \/ t.cb.applies /\ EffectOf(Prop(r, "effect"), <<>>).cb.err # null

\* evaluatePolicy calls back an error for doc itself, or its combining
\* algorithm evaluates a child that raises one. doc is the node as the
\* evaluation leaves it: `apply` is still a string where it was rejected.
RECURSIVE RaisesFault(_)
RaisesFault(doc) ==
    \/ ~Truthy(doc)
    \/ /\ Truthy(doc)
       /\ LET a == Prop(doc, "apply")
              t == evaluateTarget(Prop(doc, "target"), routers, dataRetriever)
          IN  \/ IsScalar(a) /\ Truthy(a) /\ a.s \notin combineAlg \cup ObjectPrototype
              \/ /\ ~(IsScalar(a) /\ Truthy(a)
                        /\ a.s \notin combineAlg \cup ObjectPrototype)
                 /\ "threw" \notin DOMAIN t
                 /\ \/ t.cb.err # null
                    \/ /\ t.cb.err = null
                       /\ t.cb.applies
                       /\ IF Truthy(Prop(doc, "policies"))
                          THEN /\ IsFunction(a) /\ a.fn \in combineAlg
                               /\ \E i \in 1..Len(doc.policies.arr) :
                                     RaisesFault(doc.policies.arr[i])
                          ELSE IF Truthy(Prop(doc, "rules"))
                          THEN /\ IsFunction(a) /\ a.fn \in combineAlg
                               /\ \E i \in 1..Len(doc.rules.arr) :
                                     RuleRaisesFault(doc.rules.arr[i])
                          ELSE RuleRaisesFault(doc)

\* C13: when a node that is evaluated raises a configuration fault, the
\* top-level evaluation ends with that kind of outcome: an error and no
\* decision, whatever the depth of the node, the combining algorithms above
\* it and the results of its siblings.
C13_FaultPropagates ==
    (pc # "evaluatePolicy" /\ RaisesFault(item))
        => /\ pc = "done"
           /\ cb.err # null
           /\ "result" \notin DOMAIN cb

\* a policy set under permit-overrides whose first policy yields PERMIT and
\* whose second policy holds a rule with an invalid effect
C13_Witness ==
    /\ pc = "done"
    /\ Truthy(item)
    /\ Truthy(Prop(item, "policies"))
    /\ item.apply = Function("'permit-overrides'")
    /\ Len(item.policies.arr) = 2
    /\ Child("evaluatePolicy", item.policies, 1).cb = Result(PERMIT)
    /\ item.policies.arr[2] # null
    /\ ~RaisesFault([item.policies.arr[2] EXCEPT !.rules = [arr |-> <<>>]])
    /\ RuleRaisesFault(item.policies.arr[2].rules.arr[1])
    /\ cb = Fault("'RBAC rule error: invalid effect'")

----------------------------------------------------------------------------
(* Which policy the handler evaluates *)

\* the route's own rbac configuration, if it has one, and the global policy
RouteConfigured == "rbac" \in DOMAIN request.route.settings.plugins

RouteRbac == request.route.settings.plugins.rbac

GlobalConfigured == "policy" \in DOMAIN options

\* the configuration in force: the route's, else the global one
InForce ==
    IF RouteConfigured THEN RouteRbac
    ELSE IF GlobalConfigured THEN options.policy ELSE undefined

\* no policy is configured, the configuration is 'none', or it is a policy
\* retrieval function that returns null or 'none'
NoPolicyInForce ==
    \/ InForce \in {undefined, Str(CONFIG_NONE)}
    \/ /\ IsFunction(InForce)
       /\ "returns" \in DOMAIN InForce
       /\ InForce.returns \in {null, Str(CONFIG_NONE)}

\* C14: without a policy in force the request continues and the engine is
\* not invoked: no policy is evaluated, no child router is created and no
\* retriever is called.
C14_NoPolicyContinues ==
    (pc \notin {"onPostAuth", "retrievePolicy"} /\ NoPolicyInForce)
        => /\ pc = "done"
           /\ reply = continue
           /\ item = undefined
           /\ calls = <<>>
           /\ routers = <<RootRouter>>

\* a route whose retrieval function returns 'none' while a global policy exists
C14_Witness ==
    /\ pc = "done"
    /\ RouteConfigured
    /\ IsFunction(RouteRbac)
    /\ "returns" \in DOMAIN RouteRbac
    /\ RouteRbac.returns = Str(CONFIG_NONE)
    /\ GlobalConfigured
    /\ reply = continue

\* C15: the handler retrieves the policy from the route's rbac configuration
\* when the route has one, 'none' included, and from the global policy
\* exactly when it has none; the policy it then evaluates is the retrieved one.
C15_RouteOverridesGlobal ==
    [][/\ pc = "onPostAuth"
          => IF InForce \in {undefined, Str(CONFIG_NONE)}
             THEN pc' = "done" /\ reply' = continue /\ item' = undefined
             ELSE pc' = "retrievePolicy" /\ cb' = retrievePolicy(InForce, request)
       /\ (pc = "retrievePolicy" /\ pc' = "evaluatePolicy")
          => item' = evaluatePolicy(cb.policy, routers', dataRetriever').item]_vars

\* bob asks for a route whose own policy permits everybody while the global
\* policy permits alice alone
C15_Witness ==
    /\ pc = "done"
    /\ RouteConfigured
    /\ GlobalConfigured
    /\ ~IsFunction(options.policy)
    /\ request.auth.credentials.username = Str("'bob'")
    /\ item = RouteRbac
    /\ item # options.policy
    /\ cb = Result(PERMIT)
    /\ reply = continue

\* C16: a DENY is answered with the status responseCode.onDeny and an
\* UNDETERMINED with responseCode.onUndetermined; register leaves each of
\* the two at 401 unless it is configured, whatever the other is.
C16_ResponseCodes ==
    /\ \A o \in RegisterOptions :
         \A n \in {"onDeny", "onUndetermined"} :
            applyToDefaults(defaults_options, o).responseCode[n]
               = IF "responseCode" \in DOMAIN o /\ n \in DOMAIN o.responseCode
                 THEN o.responseCode[n]
                 ELSE Str("401")
    /\ (Answered /\ cb = Result(DENY))
          => reply.statusCode = options.responseCode.onDeny
    /\ (Answered /\ cb = Result(UNDETERMINED))
          => reply.statusCode = options.responseCode.onUndetermined

\* onDeny configured as 403, onUndetermined left alone: a DENY gets 403
C16_Witness ==
    /\ Answered
    /\ cb = Result(DENY)
    /\ options.responseCode = [onDeny |-> Str("403"), onUndetermined |-> Str("401")]
    /\ reply.statusCode = Str("403")

----------------------------------------------------------------------------
(* Properties of register *)

Registered == call # undefined /\ call.op = "register"

Override == "override" \in DOMAIN call.options /\ call.options.override

Listed == {call.handles[n] : n \in 1..Len(call.handles)}

\* the retriever a get of 'h:k' on router i invokes: the invocations it makes
Invoked(i, h) == get(routers, i, <<h, "k">>, undefined).calls

\* C17: register without override on a router where a listed handle is
\* already bound throws, and each such handle stays bound to the retriever it
\* had: a get on that source invokes that retriever.
C17_RegisterBoundThrows ==
    (Registered /\ ~Override /\ Listed \cap DOMAIN call.before # {})
        => /\ call.threw
           /\ \A h \in Listed \cap DOMAIN call.before :
                /\ routers[call.router].retrievers[h] = call.before[h]
                /\ Len(Invoked(call.router, h)) = 1
                /\ Invoked(call.router, h)[1].router = call.router
                /\ Invoked(call.router, h)[1].retriever = call.before[h]

\* register(['credentials', 'test'], retriever2) where 'credentials' is bound
\* to retriever1
C17_Witness ==
    /\ Registered
    /\ ~Override
    /\ call.handles = <<"credentials", "test">>
    /\ call.retriever = "retriever2"
    /\ "credentials" \in DOMAIN call.before
    /\ call.before["credentials"] = "retriever1"
    /\ call.threw
    /\ routers[call.router].retrievers["credentials"] = "retriever1"

\* C18: register with override: true does not throw and binds every listed
\* handle, bound before or not, to the new retriever, which a get on that
\* source then invokes; every other handle of the router is as it was.
C18_OverrideReplaces ==
    (Registered /\ Override)
        => /\ ~call.threw
           /\ DOMAIN routers[call.router].retrievers = DOMAIN call.before \cup Listed
           /\ \A h \in Listed :
                /\ routers[call.router].retrievers[h] = call.retriever
                /\ Len(Invoked(call.router, h)) = 1
                /\ Invoked(call.router, h)[1].router = call.router
                /\ Invoked(call.router, h)[1].retriever = call.retriever
           /\ \A h \in DOMAIN call.before \ Listed :
                routers[call.router].retrievers[h] = call.before[h]

\* register('test', retriever2, {override: true}) where 'test' and
\* 'credentials' are bound to retriever1
C18_Witness ==
    /\ Registered
    /\ Override
    /\ call.handles = <<"test">>
    /\ call.retriever = "retriever2"
    /\ call.before = [credentials |-> "retriever1", test |-> "retriever1"]
    /\ routers[call.router].retrievers
          = [credentials |-> "retriever1", test |-> "retriever2"]

----------------------------------------------------------------------------
(* Properties of get on a child router *)

\* the last call was get('X:k') with no context of its own, on a child that
\* registered nothing, whose parent has a retriever for X
ChildGetOfParentSource ==
    /\ call # undefined
    /\ call.op = "get"
    /\ call.context = undefined
    /\ Len(call.key) = 2
    /\ "parent" \in DOMAIN routers[call.router]
    /\ routers[call.router].retrievers = <<>>
    /\ call.key[1] \in DOMAIN routers[routers[call.router].parent].retrievers

\* C19: such a get invokes the parent's retriever for X once, with the source
\* X, the key k and the child's context, and returns what it returns.
C19_ChildDelegatesToParent ==
    ChildGetOfParentSource
        => LET parent == routers[call.router].parent
               R == routers[parent].retrievers[call.key[1]]
           IN  /\ calls = <<[router |-> parent, retriever |-> R,
                             source |-> call.key[1], key |-> call.key[2],
                             context |-> routers[call.router].context]>>
               /\ call.returned = Retrieve(R, call.key[1], call.key[2],
                                           routers[call.router].context)

\* the children of the root
ChildrenOf(p) ==
    {c \in 1..Len(routers) : "parent" \in DOMAIN routers[c] /\ routers[c].parent = p}

\* a get of 'X:k' on router i invokes exactly the retriever that router r has
\* for X, with the source X
InvokesRetrieverOf(i, r, X) ==
    /\ Len(Invoked(i, X)) = 1
    /\ Invoked(i, X)[1].router = r
    /\ Invoked(i, X)[1].retriever = routers[r].retrievers[X]
    /\ Invoked(i, X)[1].source = X

\* C20: when a child registered a source X that its parent has too, a get of
\* 'X:k' on that child uses the child's retriever, while a get on the parent,
\* and on every other child that did not register X, uses the parent's.
C20_ChildShadowsParent ==
    \A X \in Sources : \A c \in ChildrenOf(1) :
        (X \in DOMAIN routers[1].retrievers /\ X \in DOMAIN routers[c].retrievers)
            => /\ InvokesRetrieverOf(c, c, X)
               /\ InvokesRetrieverOf(1, 1, X)
               /\ \A d \in ChildrenOf(1) \ {c} :
                     X \notin DOMAIN routers[d].retrievers
                        => InvokesRetrieverOf(d, 1, X)

----------------------------------------------------------------------------
(* Properties of get: sources and keys *)

\* router i, its parent, ..., the root
RECURSIVE Chain(_)
Chain(i) ==
    IF "parent" \in DOMAIN routers[i] THEN {i} \cup Chain(routers[i].parent) ELSE {i}

\* C21: a get of 'S:k' where no router of the chain has a retriever for S
\* returns null and invokes no retriever.
C21_UnregisteredSourceIsSilentMiss ==
    (/\ call # undefined
     /\ call.op = "get"
     /\ Len(call.key) >= 2
     /\ \A r \in Chain(call.router) : call.key[1] \notin DOMAIN routers[r].retrievers)
        => /\ call.returned = null
           /\ calls = <<>>

\* the text whose ':'-separated segments are segs
RECURSIVE Join(_)
Join(segs) ==
    IF Len(segs) = 1 THEN segs[1] ELSE segs[1] \o ":" \o Join(Tail(segs))

\* the reference's text before its first ':' ('credentials' when it has none)
\* and the text after it
SourceOf(key) == IF Len(key) = 1 THEN "credentials" ELSE key[1]

KeyOf(key) == IF Len(key) = 1 THEN key[1] ELSE Join(Tail(key))

\* C22: a get on a router that has a retriever for the reference's source
\* calls that retriever once, with the text before the first ':' as source
\* ('credentials' when there is no ':') and all the text after it as key.
C22_SplitsOnFirstColon ==
    (/\ call # undefined
     /\ call.op = "get"
     /\ SourceOf(call.key) \in DOMAIN routers[call.router].retrievers)
        => /\ Len(calls) = 1
           /\ calls[1].router = call.router
           /\ calls[1].source = SourceOf(call.key)
           /\ calls[1].key = KeyOf(call.key)

----------------------------------------------------------------------------
(* Properties of absent attributes *)

\* the rule has a well-formed target whose items are all on attributes that
\* resolve to absent: null (no retriever, no credentials) or undefined (no
\* such key)
RuleOnAbsentAttributes ==
    /\ Truthy(rule)
    /\ WellFormedTarget(Prop(rule, "target"))
    /\ \A i \in 2..Len(rule.target.arr) :
          Resolved(rule.target.arr[i].type).value \in {null, undefined}

\* C23: an absent attribute matches no expected value, a null or missing one
\* included, and a rule whose target has only items on absent attributes
\* yields UNDETERMINED.
C23_AbsentAttributeNeverMatches ==
    (pc = "done" /\ RuleOnAbsentAttributes)
        => /\ \A i \in 2..Len(rule.target.arr) :
                ~_targetApplies(Prop(rule.target.arr[i], "value"),
                                Resolved(rule.target.arr[i].type).value)
           /\ cb = Result(UNDETERMINED)

----------------------------------------------------------------------------
(* Properties of a node whose target does not apply *)

\* the evaluation is over for a policy or policy set whose `apply` was
\* accepted and whose target does not apply
CompositeOutOfScope ==
    /\ pc # "evaluatePolicy"
    /\ Truthy(item)
    /\ Truthy(Prop(item, "policies")) \/ Truthy(Prop(item, "rules"))
    /\ IsFunction(item.apply)
    /\ "threw" \notin DOMAIN ItemTarget
    /\ ItemTarget.cb.err = null
    /\ ~ItemTarget.cb.applies

\* child i of the node is as the document has it: evaluatePolicy did not
\* assign its `apply`
ChildUntouched(i) ==
    LET c == ItemChildren.arr[i]
    IN  (Truthy(c) /\ "apply" \in DOMAIN c) => ~IsFunction(c.apply)

\* child i of the node would raise a fault if it were evaluated
ChildMalformed(i) ==
    IF ItemFn = "evaluatePolicy"
    THEN RaisesFault(ItemChildren.arr[i])
    ELSE RuleRaisesFault(ItemChildren.arr[i])

\* C24: a policy or policy set whose target does not apply yields
\* UNDETERMINED and no error, the only retriever invocations are those of the
\* node's own target, and no child is evaluated, malformed or not.
C24_OutOfScopeChildrenNotEvaluated ==
    CompositeOutOfScope
        => /\ pc = "done"
           /\ cb = Result(UNDETERMINED)
           /\ calls = ItemTarget.calls
           /\ \A i \in 1..Len(ItemChildren.arr) : ChildUntouched(i)

\* a node whose target does not apply and which has a malformed child
C24_Witness ==
    /\ CompositeOutOfScope
    /\ \E i \in 1..Len(ItemChildren.arr) : ChildMalformed(i)
    /\ cb = Result(UNDETERMINED)
    /\ Len(calls) = 1

----------------------------------------------------------------------------
(* The policy document across an evaluation *)

\* C25: evaluatePolicy leaves the policy document as it found it: every field
\* of every node, `apply` included, has the value it had before the call.
C25_DocumentUnchanged == [][item' = item]_vars

----------------------------------------------------------------------------
(* The overriding value and the other children *)

\* the overriding value of the algorithm applied
Overriding == IF apply.alg = "'permit-overrides'" THEN PERMIT ELSE DENY

\* child i calls back the decision d, and no error
ChildYields(i, d) ==
    /\ "cb" \in DOMAIN Child(apply.fn, items, i)
    /\ ~Failed(Child(apply.fn, items, i).cb)
    /\ Child(apply.fn, items, i).cb.result = d

ChildFails(i) ==
    /\ "cb" \in DOMAIN Child(apply.fn, items, i)
    /\ Failed(Child(apply.fn, items, i).cb)

\* the algorithm ran on children of which one yields the overriding value
SomeChildOverrides ==
    /\ pc # "combineAlg"
    /\ items # undefined
    /\ \E i \in 1..Len(items.arr) : ChildYields(i, Overriding)

----------------------------------------------------------------------------
(* The node's decision and its children's callbacks *)

\* the node's callback was invoked with a decision
Decided == cb # Pending /\ cb.err = null /\ cb.result \in {PERMIT, DENY}

\* C27: the node's callback gets PERMIT or DENY only when every child has
\* called back, and the decision is the one the children evaluated in the
\* order of the list give, whatever the order they called back in.
C27_DecisionAfterAllChildren ==
    (pc \in {"parallel", "done"} /\ Decided)
        => /\ Len(tasks) = Len(items.arr)
           /\ \A i \in 1..Len(tasks) : tasks[i] # Pending
           /\ cb = combine(apply.alg, items, apply.fn, routers, dataRetriever).cb

\* the second child called back DENY, then the first one PERMIT
C27_Witness ==
    /\ pc = "done"
    /\ Decided
    /\ Len(tasks) = 2
    /\ call = [op |-> "callback", task |-> 1]
    /\ tasks[1] = Result(PERMIT)
    /\ tasks[2] = Result(DENY)

----------------------------------------------------------------------------
(* Requests sharing the policy document and the root router *)

\* the document as register was handed it
ConfiguredDocument ==
    IF IsFunction(options.policy) THEN options.policy.returns ELSE options.policy

\* request r evaluated alone: a fresh root, its child, the document as configured
Alone(r) == evaluatePolicy(ConfiguredDocument, RoutersFor(request[r]), 2)

\* C28: whatever the interleaving, the root router's table stays as register
\* left it, every retriever invocation made for a request gets that request
\* as context, and the request's decision and reply are those of the request
\* evaluated alone.
C28_RequestsIsolated ==
    /\ routers[1] = RootRouter
    /\ \A r \in 1..MaxRequests :
          /\ \A k \in 1..Len(calls[r]) : calls[r][k].context = request[r]
          /\ pc[r] = "done"
                => /\ cb[r] = Alone(r).cb
                   /\ reply[r] = replyOfCallback(Alone(r).cb)

\* bob's request was evaluated before alice's, on the document that bob's
\* evaluation left, and only alice's continues
C28_Witness ==
    /\ pc = [r \in 1..MaxRequests |-> "done"]
    /\ IsFunction(options.policy)
    /\ item # ConfiguredDocument
    /\ request[1].auth.credentials.username = Str("'alice'")
    /\ request[2].auth.credentials.username = Str("'bob'")
    /\ routers[2].context = request[2]
    /\ routers[3].context = request[1]
    /\ Len(calls[1]) > 0 /\ Len(calls[2]) > 0
    /\ reply[1] = continue
    /\ reply[2] # continue

----------------------------------------------------------------------------
(* The callback of evaluatePolicy *)

\* every node of the document that has an `apply` names a built-in algorithm
\* (or holds the built-in function evaluatePolicy put in its place)
RECURSIVE UsesBuiltIn(_)
UsesBuiltIn(doc) ==
    \/ ~Truthy(doc)
    \/ /\ LET a == Prop(doc, "apply")
           IN  \/ ~Truthy(a)
               \/ IsScalar(a) /\ a.s \in combineAlg
               \/ IsFunction(a) /\ a.fn \in combineAlg
       /\ Truthy(Prop(doc, "policies"))
             => \A i \in 1..Len(doc.policies.arr) : UsesBuiltIn(doc.policies.arr[i])

\* C29: for a document that uses the built-in algorithms only, evaluatePolicy
\* ends having invoked its callback, with an error and no decision or with no
\* error and one of PERMIT, DENY, UNDETERMINED.
C29_CallbackInvokedOnce ==
    (pc # "evaluatePolicy" /\ UsesBuiltIn(item))
        => /\ pc = "done"
           /\ cb # Pending
           /\ \/ cb.err # null /\ "result" \notin DOMAIN cb
              \/ cb.err = null /\ cb.result \in {PERMIT, DENY, UNDETERMINED}

----------------------------------------------------------------------------
(* register with a list of handles *)

\* C30: a register that throws leaves the router's table as it found it: no
\* listed handle is bound to the new retriever.
C30_RegisterAllOrNothing ==
    (Registered /\ call.threw)
        => routers[call.router].retrievers = call.before

====
